---- MODULE Spec2Model ----
(***************************************************************************)
(* Negative-sample synthesis engine of yine_rules.negatives: the rule      *)
(* generators R4, R6, R7, R8, the registry, the loader, the sampling       *)
(* controller generate_negatives, the exporter, and make_splits of         *)
(* yine_rules.datasets.                                                    *)
(*                                                                         *)
(* Texts are sequences of one-character strings.  The controller's        *)
(* random.Random(cfg.seed) is the stream of values the seed fixes: tape     *)
(* keeps the values drawn so far, so a later run with the same seed reads   *)
(* the same values; randint(a,b) is a + v and choice(s) is s[v+1] for the   *)
(* value v below the number of outcomes.  A generator's own rng is never    *)
(* seeded again after construction: its draws are any value, and rng_pos    *)
(* counts them; random() is u/RngRes.  ratio_target is the rational         *)
(* ratio_num/RatioDen, injection_rate the rational injection_rate/RngRes.   *)
(***************************************************************************)
EXTENDS Integers, Sequences, FiniteSets, TLC

\* ------------------------------------------------------------------ bounds
MaxPos == 2
MaxK == 2
MaxRatioNum == 3
RatioDen == 2
RngRes == 3
MaxRuns == 2
MaxGenCalls == 2
MaxExportCalls == 3
MaxRegCalls == 3
MaxExportLen == 2
MaxSplitIds == 3
SplitDen == 4

\* -------------------------------------------------------------- characters
LowerAZ ==
    {"a", "c", "e", "g", "i", "k", "l", "m", "n", "o", "p", "s", "t", "u", "w", "y"}
UpperAZ == {"E", "M", "N", "P", "S"}
Digits == {"1"}
Spaces == {" "}

\* str.lower() on one character
LowerCh(c) ==
    CASE c = "S" -> "s"
      [] c = "E" -> "e"
      [] c = "M" -> "m"
      [] c = "N" -> "n"
      [] c = "P" -> "p"
      [] OTHER -> c

\* str.upper() on one character (str.capitalize, str.isupper)
UpperCh(c) ==
    CASE c = "s" -> "S"
      [] c = "e" -> "E"
      [] c = "m" -> "M"
      [] c = "n" -> "N"
      [] c = "p" -> "P"
      [] OTHER -> c

\* regex \w
WordChars == LowerAZ \cup UpperAZ \cup Digits
\* regex [a-zñ] (R6, on lowered text)
R6Chars == LowerAZ
\* regex [a-zñáéíóúü] with re.IGNORECASE (R7)
R7Chars == LowerAZ \cup UpperAZ

Lower(t) == [x \in 1..Len(t) |-> LowerCh(t[x])]

\* str.capitalize(): first character upper, the rest lower
Capitalize(t) == [x \in 1..Len(t) |-> IF x = 1 THEN UpperCh(t[x]) ELSE LowerCh(t[x])]

WordAt(t, x) == x \in 1..Len(t) /\ t[x] \in WordChars

\* regex \b before position x (between t[x-1] and t[x])
Boundary(t, x) == WordAt(t, x - 1) # WordAt(t, x)

\* t[x..] starts with p
MatchAt(t, p, x) ==
    /\ x >= 1
    /\ x + Len(p) - 1 <= Len(t)
    /\ SubSeq(t, x, x + Len(p) - 1) = p

StartsWith(t, p) == MatchAt(t, p, 1)
EndsWith(t, p) == Len(p) <= Len(t) /\ MatchAt(t, p, Len(t) - Len(p) + 1)

\* re.search(rf"\b{re.escape(p)}\b", t)
SearchWord(p, t) ==
    \E x \in 1..(Len(t) + 1) :
        Boundary(t, x) /\ MatchAt(t, p, x) /\ Boundary(t, x + Len(p))

\* str.strip()
RECURSIVE LStrip(_)
LStrip(t) == IF t # <<>> /\ Head(t) \in Spaces THEN LStrip(Tail(t)) ELSE t
RECURSIVE RStrip(_)
RStrip(t) ==
    IF t # <<>> /\ t[Len(t)] \in Spaces THEN RStrip(SubSeq(t, 1, Len(t) - 1)) ELSE t
Strip(t) == LStrip(RStrip(t))

\* end of the match of \b[cls]+\b starting at x, or 0 when there is none:
\* the run of cls characters from x must begin and end at a word boundary
TokenEnd(t, cls, x) ==
    IF Boundary(t, x) /\ x <= Len(t) /\ t[x] \in cls
    THEN LET stop == CHOOSE e \in x..Len(t) :
                        /\ \A y \in x..e : t[y] \in cls
                        /\ (e = Len(t) \/ t[e + 1] \notin cls)
         IN  IF Boundary(t, stop + 1) THEN stop ELSE 0
    ELSE 0

\* re.findall / re.finditer of \b[cls]+\b: the spans <<first, last>>, left to right
RECURSIVE TokenSpans(_, _, _)
TokenSpans(t, cls, x) ==
    IF x > Len(t) THEN <<>>
    ELSE LET e == TokenEnd(t, cls, x)
         IN  IF e = 0 THEN TokenSpans(t, cls, x + 1)
             ELSE <<(<<x, e>>)>> \o TokenSpans(t, cls, e + 1)

Tokens(t, cls) ==
    LET sp == TokenSpans(t, cls, 1)
    IN  [n \in 1..Len(sp) |-> SubSeq(t, sp[n][1], sp[n][2])]

\* first index at which p occurs in t, or 0
Find(t, p) ==
    IF \E x \in 1..(Len(t) + 1) : MatchAt(t, p, x)
    THEN CHOOSE x \in 1..(Len(t) + 1) :
            MatchAt(t, p, x) /\ \A y \in 1..(x - 1) : ~MatchAt(t, p, y)
    ELSE 0

\* str.replace(old, new, 1)
Replace1(t, old, new) ==
    LET x == Find(t, old)
    IN  IF x = 0 THEN t
        ELSE SubSeq(t, 1, x - 1) \o new \o SubSeq(t, x + Len(old), Len(t))

\* ---------------------------------------------------------------- lexicons
\* The lexicon resources (resources/lexicons/*.yaml) are configuration read once
\* at construction; these are the values the generators are built with here.
Posesivos == {<<"m", "i">>}
Prefixes == <<(<<"n">>), (<<"p">>)>>
PssdSuffixes == <<(<<"t", "e">>), (<<"e">>)>>
YineDets == {<<"s", "a", "t", "u">>}
SpanishArticles == {<<"e", "l">>}
Adjectives == {<<"p", "o", "t", "l", "u">>, <<"k", "a", "l", "o">>}
R7Pairs == <<[masc |-> <<"l", "u">>, fem |-> <<"l", "o">>, enabled |-> TRUE]>>
Determiners == <<(<<"e", "l">>), (<<"l", "a">>)>>

\* R7 module constants
STOPWORDS_YINE ==
    {<<"w", "a">>, <<"g", "a">>, <<"g", "i">>, <<"w", "a", "n", "e">>,
     <<"w", "a", "l", "e">>, <<"s", "a", "t", "u">>, <<"s", "a", "t", "o">>,
     <<"p", "a">>}
VERBAL_SUFFIXES ==
    {<<"t", "a">>, <<"n", "a">>, <<"k", "a", "l", "u">>, <<"l", "u", "w", "a">>,
     <<"t", "k", "a">>}

\* R4: len(root) < 3 is skipped; R6: len(t1) >= 3; R7 looks_like_noun: len(tok) < 3
R4MinRootLen == 3
R6MinNounLen == 3
R7MinNounLen == 3

\* ------------------------------------------------------------------ samples
NegativeSample(pid, src, tgt, neg, rid, vtype, sev, meta, split) ==
    [pair_id |-> pid, source_text |-> src, target_text |-> tgt,
     negative_text |-> neg, rule_id |-> rid, violation_type |-> vtype,
     severity |-> sev, metadata |-> meta, split |-> split]

\* --------------------------------------------------------------- generators
\* R4PSSDOmission.generate: token[:-len(suf)]
R4Root(token, suf) ==
    IF Len(suf) = 0 THEN <<>> ELSE SubSeq(token, 1, Len(token) - Len(suf))

\* the candidates of a scan without the length guard on the root
R4CandidatesNoGuard(tokens) ==
    {c \in (1..Len(tokens)) \X (1..Len(Prefixes)) \X (1..Len(PssdSuffixes)) :
        /\ StartsWith(tokens[c[1]], Prefixes[c[2]])
        /\ EndsWith(tokens[c[1]], PssdSuffixes[c[3]])}

\* the (token, prefix, suffix) index triples that pass the guards of the scan
R4Candidates(tokens) ==
    {c \in (1..Len(tokens)) \X (1..Len(Prefixes)) \X (1..Len(PssdSuffixes)) :
        /\ StartsWith(tokens[c[1]], Prefixes[c[2]])
        /\ EndsWith(tokens[c[1]], PssdSuffixes[c[3]])
        /\ Len(R4Root(tokens[c[1]], PssdSuffixes[c[3]])) >= R4MinRootLen}

\* order of the nested loops: token, then prefix, then suffix
ScanBefore(c, d) ==
    \/ c[1] < d[1]
    \/ c[1] = d[1] /\ c[2] < d[2]
    \/ c[1] = d[1] /\ c[2] = d[2] /\ c[3] <= d[3]

R4Trigger(source_text) ==
    \E p \in Posesivos : SearchWord(p, Lower(source_text))

R4Generate(gen, pid, source_text, target_text, split) ==
    IF ~R4Trigger(source_text) THEN <<>>
    ELSE LET tokens == Tokens(target_text, WordChars)
             cands == R4Candidates(tokens)
         IN  IF cands = {} THEN <<>>
             ELSE LET c == CHOOSE x \in cands : \A d \in cands : ScanBefore(x, d)
                      token == tokens[c[1]]
                      suf == PssdSuffixes[c[3]]
                      root == R4Root(token, suf)
                  IN  <<NegativeSample(pid, source_text, target_text,
                            Replace1(target_text, token, root),
                            gen.rule_id, gen.violation_type, gen.severity,
                            [mutation |-> "pssd_omission", removed_suffix |-> suf,
                             prefix |-> Prefixes[c[2]], original_token |-> token],
                            split)>>

\* R6DeterminantSwap._spanish_has_article
SpanishHasArticle(text) ==
    \E art \in SpanishArticles : SearchWord(art, Lower(text))

\* number of whitespace characters from position x on
RECURSIVE SpaceRun(_, _)
SpaceRun(t, x) ==
    IF x <= Len(t) /\ t[x] \in Spaces THEN 1 + SpaceRun(t, x + 1) ELSE 0

\* match of rf"\b{t0}\s+{t1}\b" with re.IGNORECASE at position x: 0 when there
\* is none, else the position after the match
R6MatchEnd(t, t0, t1, x) ==
    LET low == Lower(t)
        s == x + Len(t0)
        n == SpaceRun(t, s)
    IN  IF /\ Boundary(t, x)
           /\ MatchAt(low, t0, x)
           /\ n >= 1
           /\ MatchAt(low, t1, s + n)
           /\ Boundary(t, s + n + Len(t1))
        THEN s + n + Len(t1)
        ELSE 0

\* pattern.sub(swap, target_text, count=1): the first match is replaced by its
\* two words swapped and joined by one space; no match leaves the text unchanged
R6Sub(t, t0, t1) ==
    IF \E x \in 1..Len(t) : R6MatchEnd(t, t0, t1, x) # 0
    THEN LET x == CHOOSE y \in 1..Len(t) :
                     /\ R6MatchEnd(t, t0, t1, y) # 0
                     /\ \A z \in 1..(y - 1) : R6MatchEnd(t, t0, t1, z) = 0
             e == R6MatchEnd(t, t0, t1, x)
             w0 == SubSeq(t, x, x + Len(t0) - 1)
             w1 == SubSeq(t, e - Len(t1), e - 1)
         IN  SubSeq(t, 1, x - 1) \o w1 \o <<" ">> \o w0 \o SubSeq(t, e, Len(t))
    ELSE t

R6Generate(gen, pid, source_text, target_text, split) ==
    IF ~SpanishHasArticle(source_text) THEN <<>>
    ELSE LET tokens == Tokens(Lower(target_text), R6Chars)
             sites == {x \in 1..(Len(tokens) - 1) :
                          tokens[x] \in YineDets /\ Len(tokens[x + 1]) >= R6MinNounLen}
         IN  IF sites = {} THEN <<>>
             ELSE LET x == CHOOSE y \in sites : \A z \in sites : y <= z
                      t0 == tokens[x]
                      t1 == tokens[x + 1]
                  IN  <<NegativeSample(pid, source_text, target_text,
                            R6Sub(target_text, t0, t1),
                            gen.rule_id, gen.violation_type, gen.severity,
                            [mutation |-> "np_det_swap",
                             original_order |-> t0 \o <<" ">> \o t1,
                             swapped_order |-> t1 \o <<" ">> \o t0],
                            split)>>

\* R7: looks_like_noun
looks_like_noun(tok) ==
    /\ tok \notin STOPWORDS_YINE
    /\ Len(tok) >= R7MinNounLen
    /\ ~\E v \in VERBAL_SUFFIXES : EndsWith(tok, v)

\* R7GenderAgreementFlip.__init__: enabled_suffixes and flip_map
R7EnabledPairs == {n \in 1..Len(R7Pairs) : R7Pairs[n].enabled}
R7EnabledSuffixes ==
    {Lower(R7Pairs[n].masc) : n \in R7EnabledPairs}
        \cup {Lower(R7Pairs[n].fem) : n \in R7EnabledPairs}
\* the last assignment to flip_map[suf] wins: pairs in list order, masc then fem
R7FlipMap(suf) ==
    LET n == CHOOSE m \in R7EnabledPairs :
                 /\ suf \in {Lower(R7Pairs[m].masc), Lower(R7Pairs[m].fem)}
                 /\ \A o \in R7EnabledPairs :
                        suf \in {Lower(R7Pairs[o].masc), Lower(R7Pairs[o].fem)} => o <= m
    IN  IF Lower(R7Pairs[n].fem) = suf
        THEN Lower(R7Pairs[n].masc) ELSE Lower(R7Pairs[n].fem)

\* the suffixes the loop over the set enabled_suffixes can stop at for a token
R7Hits(tok_lower) ==
    {suf \in R7EnabledSuffixes :
        EndsWith(tok_lower, suf) /\ Len(tok_lower) > Len(suf) + 1 /\ Len(suf) > 0}

\* NP structural check of token x
R7InNP(lowered, x) ==
    \/ x < Len(lowered) /\ looks_like_noun(lowered[x + 1])
    \/ x > 1 /\ looks_like_noun(lowered[x - 1])

\* the result of generate when the suffix loop stops at hit_suffix for token x
R7Flip(gen, pid, source_text, target_text, split, spans, x, hit_suffix) ==
    LET original_tok == SubSeq(target_text, spans[x][1], spans[x][2])
        tok_lower == Lower(original_tok)
        flipped_lower ==
            SubSeq(tok_lower, 1, Len(tok_lower) - Len(hit_suffix)) \o R7FlipMap(hit_suffix)
        flipped ==
            IF original_tok[1] \in UpperAZ THEN Capitalize(flipped_lower) ELSE flipped_lower
        negative ==
            SubSeq(target_text, 1, spans[x][1] - 1) \o flipped
                \o SubSeq(target_text, spans[x][2] + 1, Len(target_text))
    IN  IF negative = target_text THEN <<>>
        ELSE <<NegativeSample(pid, source_text, target_text, negative,
                   gen.rule_id, gen.violation_type, gen.severity,
                   [mutation |-> "gender_agreement_flip", original_token |-> original_tok,
                    flipped_token |-> flipped, suffix_changed |-> hit_suffix],
                   split)>>

\* R7GenderAgreementFlip.generate: every result it can return (the suffix loop
\* iterates a set, whose order the language does not fix)
R7Generate(gen, pid, source_text, target_text, split) ==
    LET spans == TokenSpans(target_text, R7Chars, 1)
        lowered == [n \in 1..Len(spans) |->
                       Lower(SubSeq(target_text, spans[n][1], spans[n][2]))]
        sites == {x \in 1..Len(spans) :
                     /\ lowered[x] \in Adjectives
                     /\ R7Hits(lowered[x]) # {}
                     /\ R7InNP(lowered, x)}
    IN  IF sites = {} THEN {<<>>}
        ELSE LET x == CHOOSE y \in sites : \A z \in sites : y <= z
             IN  {R7Flip(gen, pid, source_text, target_text, split, spans, x, suf) :
                      suf \in R7Hits(lowered[x])}

\* a determiner test on the text as written, without text.lower()
ContainsSpanishDeterminerAsWritten(text) ==
    \E n \in 1..Len(Determiners) : SearchWord(Determiners[n], text)

\* R8SpanishDeterminerInjection._contains_spanish_determiner
ContainsSpanishDeterminer(text) ==
    \E n \in 1..Len(Determiners) : SearchWord(Determiners[n], Lower(text))

\* R8SpanishDeterminerInjection.generate, with u the value of self.rng.random()
\* (u/RngRes) and c the value self.rng.choice draws: the samples returned and
\* the number of values taken from self.rng
R8Generate(gen, pid, source_text, target_text, split, u, c) ==
    IF u > gen.injection_rate THEN [samples |-> <<>>, draws |-> 1]
    ELSE IF ContainsSpanishDeterminer(target_text) THEN [samples |-> <<>>, draws |-> 1]
    ELSE LET det == Determiners[c + 1]
         IN  [samples |->
                  <<NegativeSample(pid, source_text, target_text,
                        Strip(det \o <<" ">> \o target_text),
                        gen.rule_id, gen.violation_type, gen.severity,
                        [mutation |-> "prefix_injection", inserted_token |-> det,
                         categories |-> Determiners,
                         injection_rate |-> gen.injection_rate],
                        split)>>,
              draws |-> 2]

\* generator.generate(...) by class: every outcome the call can have
GenOutcomes(gen, pid, source_text, target_text, split) ==
    CASE gen.class = "R4" ->
            {[samples |-> R4Generate(gen, pid, source_text, target_text, split),
              draws |-> 0]}
      [] gen.class = "R6" ->
            {[samples |-> R6Generate(gen, pid, source_text, target_text, split),
              draws |-> 0]}
      [] gen.class = "R7" ->
            {[samples |-> s, draws |-> 0] :
                s \in R7Generate(gen, pid, source_text, target_text, split)}
      [] gen.class = "R8" ->
            {R8Generate(gen, pid, source_text, target_text, split, u, c) :
                u \in 0..(RngRes - 1), c \in 0..(Len(Determiners) - 1)}

\* generator constructors (__init__): rule_id and violation_type are class
\* attributes, self.rng = random.Random(seed) starts at position 0
NewR4(severity) ==
    [class |-> "R4", rule_id |-> "R4", violation_type |-> "morphological",
     severity |-> severity, rng_pos |-> 0]
NewR6(severity) ==
    [class |-> "R6", rule_id |-> "R6", violation_type |-> "syntactic",
     severity |-> severity, rng_pos |-> 0]
NewR7(severity) ==
    [class |-> "R7", rule_id |-> "R7", violation_type |-> "morphological",
     severity |-> severity, rng_pos |-> 0]
NewR8(severity, injection_rate) ==
    [class |-> "R8", rule_id |-> "R8", violation_type |-> "lexical",
     severity |-> severity, injection_rate |-> injection_rate, rng_pos |-> 0]

\* ----------------------------------------------------------------- registry
\* a register that overwrites every entry with the new generator
RegisterOverAll(reg, gen) == [x \in (DOMAIN reg) \cup {gen.rule_id} |-> gen]

\* register(gen): _REGISTRY[gen.rule_id] = gen
Register(reg, gen) ==
    [x \in (DOMAIN reg) \cup {gen.rule_id} |-> IF x = gen.rule_id THEN gen ELSE reg[x]]

\* rule_id in _REGISTRY (get raises KeyError when it is not)
Registered(reg, rule_id) == rule_id \in DOMAIN reg

\* get(rule_id) for a registered rule_id
Get(reg, rule_id) == reg[rule_id]

EmptyRegistry == [x \in {} |-> x]

\* the rule ids of the generator classes, in the order of sorted()
RuleIdOrder == <<"R4", "R6", "R7", "R8">>

\* the ids of RuleIdOrder from position x on that are keys of reg, in order
RECURSIVE KeysFrom(_, _)
KeysFrom(reg, x) ==
    IF x > Len(RuleIdOrder) THEN <<>>
    ELSE IF RuleIdOrder[x] \in DOMAIN reg
         THEN <<RuleIdOrder[x]>> \o KeysFrom(reg, x + 1)
         ELSE KeysFrom(reg, x + 1)

\* the keys in descending order
AvailableDescending(reg) ==
    LET up == KeysFrom(reg, 1)
    IN  [x \in 1..Len(up) |-> up[Len(up) + 1 - x]]

\* available(): sorted(_REGISTRY.keys())
Available(reg) == KeysFrom(reg, 1)

\* ------------------------------------------------------------------- loader
GENERATOR_CLASSES == {"R4", "R8"}

\* load_generators_from_rules_yaml, from entry x of the rule list on: the
\* registry and the loaded list, ok = FALSE when it raises ValueError (the
\* entries registered before the raise stay in the registry)
RECURSIVE LoadFrom(_, _, _, _)
LoadFrom(reg, loaded, rules, x) ==
    IF x > Len(rules) THEN [registry |-> reg, loaded |-> loaded, ok |-> TRUE]
    ELSE LET r == rules[x]
         IN  IF ~r.enabled THEN LoadFrom(reg, loaded, rules, x + 1)
             ELSE IF r.rule_id \notin GENERATOR_CLASSES
                  THEN [registry |-> reg, loaded |-> loaded, ok |-> FALSE]
             ELSE LET gen == IF r.rule_id = "R4" THEN NewR4(r.severity)
                             ELSE NewR8(r.severity, r.injection_rate)
                  IN  LoadFrom(Register(reg, gen), Append(loaded, r.rule_id), rules, x + 1)

LoadGenerators(reg, rules) ==
    IF rules = <<>> THEN [registry |-> reg, loaded |-> <<>>, ok |-> FALSE]
    ELSE LoadFrom(reg, <<>>, rules, 1)

\* -------------------------------------------------------------------- texts
SPC == <<" ">>
W_mi == <<"m", "i">>
W_el == <<"e", "l">>
W_El == <<"E", "l">>
W_mio == <<"m", "i", "o">>
W_satu == <<"s", "a", "t", "u">>
W_Satu == <<"S", "a", "t", "u">>
W_yine == <<"y", "i", "n", "e">>
W_npate == <<"n", "p", "a", "t", "e">>
W_anpate == <<"a", "n", "p", "a", "t", "e">>
W_nate == <<"n", "a", "t", "e">>
W_ne == <<"n", "e">>
W_potlu == <<"p", "o", "t", "l", "u">>
W_Potlu == <<"P", "o", "t", "l", "u">>
W_yi1 == <<"y", "i", "1">>

SourceTexts == {W_mi, W_el, W_mio, <<"M", "i">> \o SPC \o W_el}
TargetWords ==
    {W_satu, W_Satu, W_yine, W_npate, W_anpate, W_nate, W_ne, W_potlu, W_Potlu,
     W_yi1, W_el, W_El}
Separators == {SPC, <<",", " ">>, <<"-">>, <<" ", " ">>}
TargetTexts ==
    TargetWords
        \cup {a \o s \o b : a \in TargetWords, s \in Separators, b \in TargetWords}
        \cup {<<>>, W_yine \o SPC, W_satu \o SPC \o W_yi1 \o SPC \o W_yine}

\* ------------------------------------------------------------------ corpus
\* the rows the positive table is built from: row x has pair_id x
CorpusTexts ==
    <<[source_text |-> <<"M", "i">> \o SPC \o W_el, target_text |-> W_npate \o SPC \o W_yine],
      [source_text |-> W_mi, target_text |-> W_satu \o SPC \o W_nate],
      [source_text |-> W_mio, target_text |-> W_el \o SPC \o W_yine]>>

PositiveRow(x) ==
    [pair_id |-> x,
     source_text |-> CorpusTexts[((x - 1) % Len(CorpusTexts)) + 1].source_text,
     target_text |-> CorpusTexts[((x - 1) % Len(CorpusTexts)) + 1].target_text]

SplitLabels == {"train", "dev", "test"}

\* the split of row x when it is assigned one: train, dev, test in turn
LabelOf(x) == IF x % 3 = 1 THEN "train" ELSE IF x % 3 = 2 THEN "dev" ELSE "test"

\* the ids of 1..n that assignment a puts in split label, as the JSON list
RECURSIVE IdsOf(_, _, _)
IdsOf(a, label, n) ==
    IF n = 0 THEN <<>>
    ELSE IF a[n] = label THEN Append(IdsOf(a, label, n - 1), n) ELSE IdsOf(a, label, n - 1)

\* the rule lists of rules.yaml the loader is run on
YamlRule(rid) == [rule_id |-> rid, enabled |-> TRUE, severity |-> IF rid = "R4" THEN 9 ELSE 6,
                  injection_rate |-> 1]
YamlChoices ==
    {<<YamlRule("R4")>>, <<YamlRule("R8")>>, <<YamlRule("R4"), YamlRule("R8")>>}

\* cfg.rules_enabled of the experiment file
RuleLists == {<<"R4">>, <<"R8">>, <<"R4", "R8">>}

\* -------------------------------------------------------------------- state
VARIABLES
    registry,     \* _REGISTRY: rule_id -> generator (with its own rng position)
    call,         \* the last call made directly on a generator, the registry
                  \* or the exporter
    loaded,       \* what the last load_generators_from_rules_yaml returned
    cfg,          \* NegativesConfig, with the table and the split it names
    pc,           \* position of generate_negatives
    run,          \* number of runs of generate_negatives started
    tape,         \* the values random.Random(cfg.seed) yields, as far as drawn
    rng_pos,      \* number of values the controller's rng has yielded this run
    split_idx,    \* build_split_index(split)
    max_negatives_allowed,
    i,            \* position in df.iterrows(), from 1
    k,            \* attempts drawn for the current row
    j,            \* attempts made for the current row
    all_samples,
    drawn,        \* for each accumulated sample, the rule_id drawn for its attempt
    lookups,      \* registry lookups made this run
    gen_calls,    \* generate invocations made this run
    disk,         \* output_root
    outputs       \* the sample sequence each finished export wrote, per run

vars ==
    <<registry, call, loaded, cfg, pc, run, tape, rng_pos, split_idx, max_negatives_allowed,
      i, k, j, all_samples, drawn, lookups, gen_calls, disk, outputs>>

engineVars ==
    <<loaded, cfg, pc, run, tape, rng_pos, split_idx, max_negatives_allowed,
      i, k, j, all_samples, drawn, lookups, gen_calls, disk, outputs>>

NoCall == [rule_id |-> "none"]

EmptyDisk ==
    [has_table |-> FALSE, table |-> <<>>, table_columns |-> <<>>, table_run |-> 0,
     has_manifest |-> FALSE, manifest |-> <<>>, manifest_run |-> 0,
     has_stats |-> FALSE, stats |-> <<>>,
     rule_dirs |-> [x \in {} |-> x]]

\* the state before generate_negatives is called
Idle(c) ==
    /\ cfg = c
    /\ pc = "idle"
    /\ run = 0
    /\ tape = <<>>
    /\ rng_pos = 0
    /\ split_idx = [x \in {} |-> x]
    /\ max_negatives_allowed = 0
    /\ i = 0
    /\ k = 0
    /\ j = 0
    /\ all_samples = <<>>
    /\ drawn = <<>>
    /\ lookups = 0
    /\ gen_calls = 0
    /\ disk = EmptyDisk
    /\ outputs = <<>>

Config(n, a, rules, kmin, kmax, rnum) ==
    [table |-> [x \in 1..n |-> PositiveRow(x)],
     split |-> [train_ids |-> IdsOf(a, "train", n), dev_ids |-> IdsOf(a, "dev", n),
                test_ids |-> IdsOf(a, "test", n)],
     rules_enabled |-> rules, k_min |-> kmin, k_max |-> kmax, ratio_num |-> rnum]

\* ---------------------------------------------- generators called directly
\* the generators under test: each class as constructed, R8 at every rate n/RngRes
Generators ==
    {NewR4(9), NewR6(8), NewR7(9)} \cup {NewR8(6, rate) : rate \in 0..RngRes}

\* one generator is constructed and registered, and the arguments of the
\* generate calls are chosen
InitGen ==
    /\ \E gen \in Generators, src \in SourceTexts, tgt \in TargetTexts :
          /\ registry = Register(EmptyRegistry, gen)
          /\ call = [rule_id |-> gen.rule_id, source_text |-> src, target_text |-> tgt,
                     n |-> 0, samples |-> <<>>, draws |-> 0, rng_before |-> 0]
    /\ loaded = <<>>
    /\ Idle(Config(0, <<>>, <<"R4">>, 1, 1, 0))

\* one generate call on the registered generator
GenCall ==
    /\ call.n < MaxGenCalls
    /\ LET gen == Get(registry, call.rule_id)
       IN  \E o \in GenOutcomes(gen, 1, call.source_text, call.target_text, "train") :
               /\ call' = [call EXCEPT !.n = call.n + 1, !.samples = o.samples,
                                       !.draws = o.draws, !.rng_before = gen.rng_pos]
               /\ registry' =
                      [registry EXCEPT ![call.rule_id].rng_pos = gen.rng_pos + o.draws]
    /\ UNCHANGED engineVars

NextGen == GenCall

SpecGen == InitGen /\ [][NextGen]_vars

\* ------------------------------------------------------------- the exporter
COLUMNS ==
    <<"pair_id", "source_text", "target_text", "negative_text", "rule_id",
      "violation_type", "severity", "metadata", "split">>

\* the fields of NegativeSample with split declared first
NegativeSampleFieldsSplitFirst ==
    <<"split", "pair_id", "source_text", "target_text", "negative_text", "rule_id",
      "violation_type", "severity", "metadata">>

\* the fields of the dataclass NegativeSample in declaration order: the keys of
\* asdict(s) and so the columns of pd.DataFrame([asdict(s) for s in samples])
NegativeSampleFields ==
    <<"pair_id", "source_text", "target_text", "negative_text", "rule_id",
      "violation_type", "severity", "metadata", "split">>

\* df.columns: from the samples when there are any, else the columns given
FrameColumns(samples) == IF samples # <<>> THEN NegativeSampleFields ELSE COLUMNS

\* df[df[field] == v], in order
RECURSIVE Filter(_, _, _)
Filter(samples, field, v) ==
    IF samples = <<>> THEN <<>>
    ELSE IF Head(samples)[field] = v
         THEN <<Head(samples)>> \o Filter(Tail(samples), field, v)
         ELSE Filter(Tail(samples), field, v)

\* Counter(df[field])
Counter(samples, field) ==
    [v \in {samples[x][field] : x \in 1..Len(samples)} |-> Len(Filter(samples, field, v))]

\* export_negatives: the stats it writes and returns
ExportStats(samples) ==
    [rows |-> Len(samples), by_rule |-> Counter(samples, "rule_id"),
     by_split |-> Counter(samples, "split"), columns |-> FrameColumns(samples)]

\* an export that adds the rows to the table already in the directory
ExportNegativesAppend(d, samples, r) ==
    [d EXCEPT
        !.has_table = TRUE,
        !.table = d.table \o samples,
        !.table_columns = FrameColumns(samples),
        !.table_run = r,
        !.has_stats = TRUE,
        !.stats = ExportStats(samples)]

\* export_negatives(samples, out_dir) on the directory d, by run r: the merged
\* table, one directory per rule_id that occurs, and stats.json
ExportNegatives(d, samples, r) ==
    LET by_rule == Counter(samples, "rule_id")
    IN  [d EXCEPT
            !.has_table = TRUE,
            !.table = samples,
            !.table_columns = FrameColumns(samples),
            !.table_run = r,
            !.rule_dirs =
                [rid \in (DOMAIN d.rule_dirs) \cup (DOMAIN by_rule) |->
                    IF rid \in DOMAIN by_rule
                    THEN [table |-> Filter(samples, "rule_id", rid),
                          stats |-> [rows |-> by_rule[rid],
                                     by_split |->
                                         Counter(Filter(samples, "rule_id", rid), "split")]]
                    ELSE d.rule_dirs[rid]],
            !.has_stats = TRUE,
            !.stats = ExportStats(samples)]

\* ------------------------------------------------ the registry called directly
\* no call made yet: log is the sequence of generators registered so far
InitReg ==
    /\ registry = EmptyRegistry
    /\ call = [rule_id |-> "none", op |-> "none", log |-> <<>>, raised |-> FALSE,
               result |-> <<>>]
    /\ loaded = <<>>
    /\ Idle(Config(0, <<>>, <<"R4">>, 1, 1, 0))

\* register(gen)
RegisterCall ==
    /\ Len(call.log) < MaxRegCalls
    /\ \E gen \in Generators :
          /\ registry' = Register(registry, gen)
          /\ call' = [rule_id |-> gen.rule_id, op |-> "register",
                      log |-> Append(call.log, gen), raised |-> FALSE, result |-> <<>>]
    /\ UNCHANGED engineVars

\* get(rule_id): the generator, or KeyError
GetCall ==
    /\ \E rule_id \in {RuleIdOrder[x] : x \in 1..Len(RuleIdOrder)} :
          call' = [rule_id |-> rule_id, op |-> "get", log |-> call.log,
                   raised |-> ~Registered(registry, rule_id),
                   result |-> IF Registered(registry, rule_id)
                              THEN <<Get(registry, rule_id)>> ELSE <<>>]
    /\ UNCHANGED registry
    /\ UNCHANGED engineVars

\* available()
AvailableCall ==
    /\ call' = [rule_id |-> "none", op |-> "available", log |-> call.log,
                raised |-> FALSE, result |-> Available(registry)]
    /\ UNCHANGED registry
    /\ UNCHANGED engineVars

NextReg ==
    \/ RegisterCall
    \/ GetCall
    \/ AvailableCall

SpecReg == InitReg /\ [][NextReg]_vars

\* ------------------------------------------- construction from the resources
\* an entry of a YAML list: a string, or a scalar that is not one (a number)
YamlStr(t) == [is_str |-> TRUE, text |-> t]
YamlNum == [is_str |-> FALSE, text |-> <<>>]

\* the file at pssd_path: absent; without the key pssd.suffixes; or with the
\* value of that key, which is null (no list) or a list
PssdFile(file, key, is_list, items) ==
    [file |-> file, key |-> key, is_list |-> is_list, items |-> items]

PssdResources ==
    {PssdFile(FALSE, FALSE, FALSE, <<>>),
     PssdFile(TRUE, FALSE, FALSE, <<>>),
     PssdFile(TRUE, TRUE, FALSE, <<>>),
     PssdFile(TRUE, TRUE, TRUE, <<>>),
     PssdFile(TRUE, TRUE, TRUE, [x \in 1..Len(PssdSuffixes) |-> YamlStr(PssdSuffixes[x])]),
     PssdFile(TRUE, TRUE, TRUE, <<YamlNum, YamlStr(PssdSuffixes[1])>>),
     PssdFile(TRUE, TRUE, TRUE, <<YamlStr(PssdSuffixes[1]), YamlNum>>)}

\* R4PSSDOmission.__init__ on the file: Path.read_text raises when there is no
\* file, pssd_data["pssd"]["suffixes"] raises KeyError when the key is absent;
\* any value of the key is stored as self.pssd
R4InitRaises(res) == ~res.file \/ ~res.key

\* R4PSSDOmission.generate, for suf in self.pssd from item z on: "TypeError"
\* when token.endswith(suf) gets an item that is no string, "sample" at the
\* first suffix that passes the guards, "next" when the list is exhausted
RECURSIVE R4ScanSuffixes(_, _, _)
R4ScanSuffixes(token, items, z) ==
    IF z > Len(items) THEN "next"
    ELSE IF ~items[z].is_str THEN "TypeError"
    ELSE IF /\ EndsWith(token, items[z].text)
            /\ Len(R4Root(token, items[z].text)) >= R4MinRootLen
         THEN "sample"
    ELSE R4ScanSuffixes(token, items, z + 1)

\* for pref in self.prefixes from prefix y on: iterating self.pssd raises
\* TypeError when it is None
RECURSIVE R4ScanPrefixes(_, _, _)
R4ScanPrefixes(token, res, y) ==
    IF y > Len(Prefixes) THEN "next"
    ELSE IF ~StartsWith(token, Prefixes[y]) THEN R4ScanPrefixes(token, res, y + 1)
    ELSE IF ~res.is_list THEN "TypeError"
    ELSE LET r == R4ScanSuffixes(token, res.items, 1)
         IN  IF r = "next" THEN R4ScanPrefixes(token, res, y + 1) ELSE r

\* for token in tokens from token x on
RECURSIVE R4ScanTokens(_, _, _)
R4ScanTokens(tokens, res, x) ==
    IF x > Len(tokens) THEN "next"
    ELSE LET r == R4ScanPrefixes(tokens[x], res, 1)
         IN  IF r = "next" THEN R4ScanTokens(tokens, res, x + 1) ELSE r

\* how R4PSSDOmission.generate ends on a generator whose self.pssd is the value
\* of the resource: "TypeError", "sample", or "empty" (it returns [])
R4GenerateEnds(res, source_text, target_text) ==
    IF ~R4Trigger(source_text) THEN "empty"
    ELSE LET r == R4ScanTokens(Tokens(target_text, WordChars), res, 1)
         IN  IF r = "next" THEN "empty" ELSE r

\* the resource and the texts of the calls are chosen; nothing is constructed
InitLex ==
    /\ registry = EmptyRegistry
    /\ loaded = <<>>
    /\ \E res \in PssdResources, src \in SourceTexts, tgt \in TargetTexts :
          call = [rule_id |-> "R4", op |-> "none", res |-> res, source_text |-> src,
                  target_text |-> tgt, ends |-> "none"]
    /\ Idle(Config(0, <<>>, <<"R4">>, 1, 1, 0))

\* gen = R4PSSDOmission(...); register(gen), unless the constructor raises
ConstructCall ==
    /\ call.op = "none"
    /\ IF R4InitRaises(call.res)
       THEN /\ call' = [call EXCEPT !.op = "construct_raised"]
            /\ UNCHANGED registry
       ELSE /\ call' = [call EXCEPT !.op = "constructed"]
            /\ registry' = Register(registry, NewR4(9))
    /\ UNCHANGED engineVars

\* gen.generate(...) on the constructed generator
GenerateLexCall ==
    /\ call.op = "constructed"
    /\ call' = [call EXCEPT
                   !.op = "generated",
                   !.ends = R4GenerateEnds(call.res, call.source_text, call.target_text)]
    /\ UNCHANGED registry
    /\ UNCHANGED engineVars

NextLex ==
    \/ ConstructCall
    \/ GenerateLexCall

SpecLex == InitLex /\ [][NextLex]_vars

\* ------------------------------------------------ the exporter called directly
\* samples as the generators build them
ExportSamples ==
    {R4Generate(NewR4(9), 1, CorpusTexts[1].source_text, CorpusTexts[1].target_text,
                "train")[1],
     R8Generate(NewR8(6, RngRes), 1, CorpusTexts[1].source_text,
                CorpusTexts[1].target_text, "train", 0, 0).samples[1],
     R8Generate(NewR8(6, RngRes), 2, CorpusTexts[2].source_text,
                CorpusTexts[2].target_text, "dev", 0, 1).samples[1]}

\* the sample sequences export_negatives is called with
ExportInputs == UNION {[1..n -> ExportSamples] : n \in 0..MaxExportLen}

InitExport ==
    /\ registry = EmptyRegistry
    /\ call = [rule_id |-> "none", n |-> 0, samples |-> <<>>, prev |-> <<>>,
               stats |-> ExportStats(<<>>)]
    /\ loaded = <<>>
    /\ Idle(Config(0, <<>>, <<"R4">>, 1, 1, 0))

\* stats = export_negatives(samples, out_dir), on the same out_dir every time
ExportCall ==
    /\ call.n < MaxExportCalls
    /\ \E samples \in ExportInputs :
          /\ disk' = ExportNegatives(disk, samples, run)
          /\ call' = [call EXCEPT !.n = call.n + 1, !.samples = samples,
                                  !.prev = call.samples, !.stats = disk'.stats]
    /\ UNCHANGED <<registry, loaded, cfg, pc, run, tape, rng_pos, split_idx,
                   max_negatives_allowed, i, k, j, all_samples, drawn, lookups,
                   gen_calls, outputs>>

NextExport == ExportCall

SpecExport == InitExport /\ [][NextExport]_vars

\* ----------------------------------------------------------- the controller
InSeq(s, x) == \E n \in 1..Len(s) : s[n] = x

\* an index that gives every id without a split the label train
build_split_index_default(split) ==
    [pid \in 1..(MaxPos + 1) |->
        IF InSeq(split.test_ids, pid) THEN "test"
        ELSE IF InSeq(split.dev_ids, pid) THEN "dev"
        ELSE "train"]

\* an index whose dev loop writes the label of the train loop
build_split_index_dev_as_train(split) ==
    [pid \in {split.train_ids[n] : n \in 1..Len(split.train_ids)}
                \cup {split.dev_ids[n] : n \in 1..Len(split.dev_ids)}
                \cup {split.test_ids[n] : n \in 1..Len(split.test_ids)} |->
        IF InSeq(split.test_ids, pid) THEN "test" ELSE "train"]

\* build_split_index: later loops overwrite earlier ones
build_split_index(split) ==
    [pid \in {split.train_ids[n] : n \in 1..Len(split.train_ids)}
                \cup {split.dev_ids[n] : n \in 1..Len(split.dev_ids)}
                \cup {split.test_ids[n] : n \in 1..Len(split.test_ids)} |->
        IF InSeq(split.test_ids, pid) THEN "test"
        ELSE IF InSeq(split.dev_ids, pid) THEN "dev"
        ELSE "train"]

\* a randint that counts from zero
randint_from_zero(a, v) == v

\* rng.randint(a, b), for the value v the rng yields below b - a + 1
randint(a, v) == a + v

\* a cap that ignores the ratio
MaxNegativesAllowedAll(n_positive, ratio_num) == n_positive

\* a cap rounded up instead of truncated
MaxNegativesAllowedCeil(n_positive, ratio_num) ==
    (n_positive * ratio_num + RatioDen - 1) \div RatioDen

\* int(n_positive * cfg.ratio_target)
MaxNegativesAllowed(n_positive, ratio_num) == (n_positive * ratio_num) \div RatioDen

\* a cap test that is off by one
CapReachedLate(samples, max) == Len(samples) > max

\* len(all_samples) >= max_negatives_allowed
CapReached(samples, max) == Len(samples) >= max

\* samples put at the front instead of the end
AppendCappedFront(all, samples, max) ==
    IF samples = <<>> \/ Len(all) >= max THEN all ELSE <<Head(samples)>> \o all

\* for s in samples: if cap reached: break; all_samples.append(s)
RECURSIVE AppendCapped(_, _, _)
AppendCapped(all, samples, max) ==
    IF samples = <<>> \/ CapReached(all, max) THEN all
    ELSE AppendCapped(Append(all, Head(samples)), Tail(samples), max)

\* the values the next draw of the controller's rng can yield below n: the
\* stream is fixed by cfg.seed, so a position drawn before yields the same value
DrawValues(n) ==
    IF rng_pos < Len(tape) THEN {tape[rng_pos + 1]} \cap (0..(n - 1)) ELSE 0..(n - 1)

TapeAfter(v) == IF rng_pos < Len(tape) THEN tape ELSE Append(tape, v)

n_positive == Len(cfg.table)

\* generate_negatives, lines 57-69
BeginRun ==
    /\ run' = run + 1
    /\ rng_pos' = 0
    /\ split_idx' = build_split_index(cfg.split)
    /\ all_samples' = <<>>
    /\ drawn' = <<>>
    /\ max_negatives_allowed' = MaxNegativesAllowed(n_positive, cfg.ratio_num)
    /\ i' = 1
    /\ k' = 0
    /\ j' = 0
    /\ lookups' = 0
    /\ gen_calls' = 0
    /\ pc' = "row"
    /\ UNCHANGED <<registry, call, loaded, cfg, tape, disk, outputs>>

\* the first call of generate_negatives in the process
StartRun ==
    /\ pc = "idle"
    /\ BeginRun

\* a later call in the same process, with the same configuration
Rerun ==
    /\ pc \in {"done", "failed"}
    /\ run < MaxRuns
    /\ BeginRun

\* the row loop ends: the table is exhausted, or the break of line 72
RowExit ==
    /\ pc = "row"
    /\ i > n_positive \/ CapReached(all_samples, max_negatives_allowed)
    /\ pc' = "export"
    /\ UNCHANGED <<registry, call, loaded, cfg, run, tape, rng_pos, split_idx,
                   max_negatives_allowed, i, k, j, all_samples, drawn, lookups,
                   gen_calls, disk, outputs>>

\* split_label is None: continue
RowSkip ==
    /\ pc = "row"
    /\ i <= n_positive
    /\ ~CapReached(all_samples, max_negatives_allowed)
    /\ cfg.table[i].pair_id \notin DOMAIN split_idx
    /\ i' = i + 1
    /\ UNCHANGED <<registry, call, loaded, cfg, pc, run, tape, rng_pos, split_idx,
                   max_negatives_allowed, k, j, all_samples, drawn, lookups,
                   gen_calls, disk, outputs>>

\* k = rng.randint(cfg.k_min, cfg.k_max)
RowDrawK ==
    /\ pc = "row"
    /\ i <= n_positive
    /\ ~CapReached(all_samples, max_negatives_allowed)
    /\ cfg.table[i].pair_id \in DOMAIN split_idx
    /\ \E v \in DrawValues(cfg.k_max - cfg.k_min + 1) :
          /\ k' = randint(cfg.k_min, v)
          /\ tape' = TapeAfter(v)
    /\ rng_pos' = rng_pos + 1
    /\ j' = 0
    /\ pc' = "attempt"
    /\ UNCHANGED <<registry, call, loaded, cfg, run, split_idx, max_negatives_allowed, i,
                   all_samples, drawn, lookups, gen_calls, disk, outputs>>

\* an attempt loop that can end before range(k) is exhausted
AttemptExitEarly ==
    /\ pc = "attempt"
    /\ i' = i + 1
    /\ pc' = "row"
    /\ UNCHANGED <<registry, call, loaded, cfg, run, tape, rng_pos, split_idx,
                   max_negatives_allowed, k, j, all_samples, drawn, lookups,
                   gen_calls, disk, outputs>>

\* the attempt loop ends: range(k) is exhausted, or the break of line 88
AttemptExit ==
    /\ pc = "attempt"
    /\ j >= k \/ CapReached(all_samples, max_negatives_allowed)
    /\ i' = i + 1
    /\ pc' = "row"
    /\ UNCHANGED <<registry, call, loaded, cfg, run, tape, rng_pos, split_idx,
                   max_negatives_allowed, k, j, all_samples, drawn, lookups,
                   gen_calls, disk, outputs>>

\* rule_id = rng.choice(cfg.rules_enabled); get_generator raises KeyError
AttemptMissing ==
    /\ pc = "attempt"
    /\ j < k
    /\ ~CapReached(all_samples, max_negatives_allowed)
    /\ \E v \in DrawValues(Len(cfg.rules_enabled)) :
          /\ ~Registered(registry, cfg.rules_enabled[v + 1])
          /\ tape' = TapeAfter(v)
    /\ rng_pos' = rng_pos + 1
    /\ lookups' = lookups + 1
    /\ pc' = "failed"
    /\ UNCHANGED <<registry, call, loaded, cfg, run, split_idx, max_negatives_allowed, i, k,
                   j, all_samples, drawn, gen_calls, disk, outputs>>

\* rule_id = rng.choice(cfg.rules_enabled); generator.generate(...); the
\* samples are appended while the cap is not reached
AttemptGenerate ==
    /\ pc = "attempt"
    /\ j < k
    /\ ~CapReached(all_samples, max_negatives_allowed)
    /\ \E v \in DrawValues(Len(cfg.rules_enabled)) :
          LET rule_id == cfg.rules_enabled[v + 1]
              row == cfg.table[i]
          IN  /\ Registered(registry, rule_id)
              /\ tape' = TapeAfter(v)
              /\ \E o \in GenOutcomes(Get(registry, rule_id), row.pair_id,
                              row.source_text, row.target_text,
                              split_idx[row.pair_id]) :
                    /\ all_samples' =
                           AppendCapped(all_samples, o.samples, max_negatives_allowed)
                    /\ drawn' =
                           drawn \o [x \in 1..(Len(all_samples') - Len(all_samples)) |->
                                        rule_id]
                    /\ registry' =
                           [registry EXCEPT
                               ![rule_id].rng_pos = registry[rule_id].rng_pos + o.draws]
    /\ rng_pos' = rng_pos + 1
    /\ lookups' = lookups + 1
    /\ gen_calls' = gen_calls + 1
    /\ j' = j + 1
    /\ UNCHANGED <<call, loaded, cfg, pc, run, split_idx, max_negatives_allowed, i, k, disk,
                   outputs>>

\* stats = export_negatives(all_samples, out_root)
Export ==
    /\ pc = "export"
    /\ disk' = ExportNegatives(disk, all_samples, run)
    /\ outputs' = Append(outputs, all_samples)
    /\ pc' = "manifest"
    /\ UNCHANGED <<registry, call, loaded, cfg, run, tape, rng_pos, split_idx,
                   max_negatives_allowed, i, k, j, all_samples, drawn, lookups,
                   gen_calls>>

\* round(stats["rows"] / n_positive, 4) raises ZeroDivisionError
ManifestFail ==
    /\ pc = "manifest"
    /\ n_positive = 0
    /\ pc' = "failed"
    /\ UNCHANGED <<registry, call, loaded, cfg, run, tape, rng_pos, split_idx,
                   max_negatives_allowed, i, k, j, all_samples, drawn, lookups,
                   gen_calls, disk, outputs>>

\* write_json(out_root / "manifest.json", summary)
ManifestWrite ==
    /\ pc = "manifest"
    /\ n_positive # 0
    /\ disk' = [disk EXCEPT
                   !.has_manifest = TRUE,
                   !.manifest_run = run,
                   !.manifest =
                       [positive_rows |-> n_positive,
                        negative_rows |-> disk.stats.rows,
                        ratio_actual |-> <<disk.stats.rows, n_positive>>,
                        k_min |-> cfg.k_min, k_max |-> cfg.k_max,
                        ratio_target |-> <<cfg.ratio_num, RatioDen>>,
                        rules |-> cfg.rules_enabled]]
    /\ pc' = "done"
    /\ UNCHANGED <<registry, call, loaded, cfg, run, tape, rng_pos, split_idx,
                   max_negatives_allowed, i, k, j, all_samples, drawn, lookups,
                   gen_calls, outputs>>

\* the loader has run on a rule list; the experiment's configuration is fixed
Init ==
    /\ \E yaml \in YamlChoices :
          /\ registry = LoadGenerators(EmptyRegistry, yaml).registry
          /\ loaded = LoadGenerators(EmptyRegistry, yaml).loaded
    /\ call = NoCall
    /\ \E n \in 0..MaxPos, rules \in RuleLists, kmax \in 1..MaxK, rnum \in 0..MaxRatioNum :
          \E assigned \in SUBSET (1..n), kmin \in 0..kmax :
              Idle(Config(n, [x \in 1..n |-> IF x \in assigned THEN LabelOf(x) ELSE "none"],
                          rules, kmin, kmax, rnum))

Next ==
    \/ StartRun
    \/ RowExit
    \/ RowSkip
    \/ RowDrawK
    \/ AttemptExit
    \/ AttemptMissing
    \/ AttemptGenerate
    \/ Export
    \/ ManifestFail
    \/ ManifestWrite

Spec == Init /\ [][Next]_vars

\* repeated runs in one process
NextRerun == Next \/ Rerun

SpecRerun == Init /\ [][NextRerun]_vars

\* load_generators_from_rules_yaml is called for a further run in the process:
\* register adds its generators to the module's _REGISTRY as it is
Reload ==
    /\ pc \in {"done", "failed"}
    /\ run < MaxRuns
    /\ \E yaml \in YamlChoices :
          /\ registry' = LoadGenerators(registry, yaml).registry
          /\ loaded' = LoadGenerators(registry, yaml).loaded
    /\ pc' = "idle"
    /\ UNCHANGED <<call, cfg, run, tape, rng_pos, split_idx, max_negatives_allowed,
                   i, k, j, all_samples, drawn, lookups, gen_calls, disk, outputs>>

\* runs in one process, each after a loading of its own
NextReload == Next \/ Reload

SpecReload == Init /\ [][NextReload]_vars

\* --------------------------------------------------------------- make_splits
\* the Python slice s[a:b] for 0 <= a, 0 <= b: both ends are cut to the list
Slice(s, a, b) ==
    LET hi == IF b < Len(s) THEN b ELSE Len(s)
    IN  IF a >= hi THEN <<>> ELSE SubSeq(s, a + 1, hi)

\* rng.shuffle(ids): the orders the list can be put in (the seed picks one)
Shuffles(ids) ==
    {[x \in 1..Len(ids) |-> ids[p[x]]] :
        p \in {q \in [1..Len(ids) -> 1..Len(ids)] :
                  \A x, y \in 1..Len(ids) : q[x] = q[y] => x = y}}

\* a split whose dev list starts one position early
make_splits_overlap(ids, train_num, dev_num) ==
    LET n == Len(ids)
        n_train == (n * train_num) \div SplitDen
        n_dev == (n * dev_num) \div SplitDen
        from == IF n_train > 0 THEN n_train - 1 ELSE 0
    IN  [train_ids |-> Slice(ids, 0, n_train),
         dev_ids |-> Slice(ids, from, n_train + n_dev),
         test_ids |-> Slice(ids, n_train + n_dev, n)]

\* make_splits on the shuffled ids, with cfg.train = train_num/SplitDen and
\* cfg.dev = dev_num/SplitDen: the three lists of the split it writes and returns
make_splits(ids, train_num, dev_num) ==
    LET n == Len(ids)
        n_train == (n * train_num) \div SplitDen
        n_dev == (n * dev_num) \div SplitDen
    IN  [train_ids |-> Slice(ids, 0, n_train),
         dev_ids |-> Slice(ids, n_train, n_train + n_dev),
         test_ids |-> Slice(ids, n_train + n_dev, n)]

\* the pair_id column of the positive table (each id once) and the ratios of
\* the SplitConfig, train + dev at most 1
InitSplit ==
    /\ registry = EmptyRegistry
    /\ loaded = <<>>
    /\ \E n \in 0..MaxSplitIds, train_num \in 0..SplitDen, dev_num \in 0..SplitDen :
          /\ train_num + dev_num <= SplitDen
          /\ call = [rule_id |-> "none", op |-> "none", ids |-> [x \in 1..n |-> x],
                     train_num |-> train_num, dev_num |-> dev_num,
                     split |-> make_splits(<<>>, 0, 0), index |-> [x \in {} |-> x]]
    /\ Idle(Config(0, <<>>, <<"R4">>, 1, 1, 0))

\* split = make_splits(cfg)
MakeSplitsCall ==
    /\ call.op = "none"
    /\ \E shuffled \in Shuffles(call.ids) :
          call' = [call EXCEPT
                      !.op = "made",
                      !.split = make_splits(shuffled, call.train_num, call.dev_num)]
    /\ UNCHANGED registry
    /\ UNCHANGED engineVars

\* split_idx = build_split_index(load_split(cfg.split_json))
BuildIndexCall ==
    /\ call.op = "made"
    /\ call' = [call EXCEPT !.op = "indexed", !.index = build_split_index(call.split)]
    /\ UNCHANGED registry
    /\ UNCHANGED engineVars

NextSplit ==
    \/ MakeSplitsCall
    \/ BuildIndexCall

SpecSplit == InitSplit /\ [][NextSplit]_vars

\* ------------------------------------------------------------------- claims
\* generate_negatives has been entered and has not returned or raised
InRun == pc \in {"row", "attempt", "export", "manifest"}

\* the ids the split partition of the configuration assigns
SplitList(label) ==
    CASE label = "train" -> cfg.split.train_ids
      [] label = "dev" -> cfg.split.dev_ids
      [] label = "test" -> cfg.split.test_ids
      [] OTHER -> <<>>
Assigned(pid) == \E label \in SplitLabels : InSeq(SplitList(label), pid)

\* C1: at every point of a run and at its end the accumulated samples, and the
\* rows written, number at most floor(ratio_target * positive rows)
C1_RatioBound ==
    /\ Len(all_samples) * RatioDen <= cfg.ratio_num * n_positive
    /\ disk.has_table => Len(disk.table) * RatioDen <= cfg.ratio_num * n_positive
    /\ disk.has_manifest => disk.manifest.negative_rows * RatioDen <= cfg.ratio_num * n_positive

\* a finished run that the cap cut short: one sample more would exceed it, and
\* rows of the table were left
C1_Witness ==
    /\ pc = "done"
    /\ Len(all_samples) >= 1
    /\ (Len(all_samples) + 1) * RatioDen > cfg.ratio_num * n_positive
    /\ i <= n_positive
    /\ disk.manifest.negative_rows = Len(all_samples)

\* C2: every two runs of the same configuration, also one after the other in
\* one process on the same loaded registry, write the same sample sequence
C2_RunsIdentical ==
    \A r1 \in DOMAIN outputs, r2 \in DOMAIN outputs : outputs[r1] = outputs[r2]

\* C3: every sample a generator returns differs from the target text
C3_NoOpRejected ==
    call.rule_id # "none" =>
        \A x \in 1..Len(call.samples) :
            call.samples[x].negative_text # call.samples[x].target_text

\* C4: once the cap is reached the controller draws nothing more from its rng,
\* looks up no rule, calls no generator, and leaves both loops at once
C4_StopAtCap ==
    [][(InRun /\ Len(all_samples) >= max_negatives_allowed) =>
          /\ rng_pos' = rng_pos
          /\ tape' = tape
          /\ lookups' = lookups
          /\ gen_calls' = gen_calls
          /\ registry' = registry
          /\ all_samples' = all_samples
          /\ pc = "attempt" => pc' = "row"
          /\ pc = "row" => pc' = "export"]_vars

\* the cap is reached inside the attempt loop, with attempts and rows left
C4_Witness ==
    /\ pc = "attempt"
    /\ max_negatives_allowed > 0
    /\ Len(all_samples) >= max_negatives_allowed
    /\ j < k
    /\ i < n_positive

\* C5: the step that takes a row without a split draws nothing from the rng,
\* looks up and calls no generator, appends nothing: it changes nothing but the
\* position in the table (or leaves the loop, when the cap is already reached),
\* so the run goes on from the state it would be in without that row
C5_SkipUnassigned ==
    [][(pc = "row" /\ i <= n_positive /\ ~Assigned(cfg.table[i].pair_id)) =>
          /\ UNCHANGED <<registry, call, loaded, cfg, run, tape, rng_pos, split_idx,
                         max_negatives_allowed, k, j, all_samples, drawn, lookups,
                         gen_calls, disk, outputs>>
          /\ \/ pc' = "row" /\ i' = i + 1
             \/ pc' = "export" /\ i' = i]_vars

\* a finished run that skipped a row and drew samples from a later one
C5_Witness ==
    /\ pc = "done"
    /\ \E x \in 1..n_positive :
          /\ ~Assigned(cfg.table[x].pair_id)
          /\ \E y \in 1..Len(all_samples) : all_samples[y].pair_id > x

\* C6: a run whose enabled list names an unregistered rule never completes
\* and writes neither a sample table nor a manifest
C6_UnregisteredIsFatal ==
    (\E x \in 1..Len(cfg.rules_enabled) : ~Registered(registry, cfg.rules_enabled[x])) =>
        /\ pc # "done"
        /\ ~disk.has_table
        /\ ~disk.has_manifest

\* C7: a run that ended with an error wrote no table and no manifest, and a
\* manifest on disk is from the run that wrote the table and counts its rows
C7_FailedRunLeavesNothing ==
    /\ pc = "failed" => (disk.table_run # run /\ disk.manifest_run # run)
    /\ disk.has_manifest =>
          /\ disk.has_table
          /\ disk.manifest_run = disk.table_run
          /\ disk.manifest.negative_rows = Len(disk.table)

\* the samples of the run, in memory and as written
RunSamples == {all_samples} \cup (IF disk.has_table THEN {disk.table} ELSE {})

\* C8: the rule_id of every sample is in cfg.rules_enabled and is the rule_id
\* drawn for the attempt that produced it
C8_RuleAttribution ==
    /\ Len(drawn) = Len(all_samples)
    /\ \A x \in 1..Len(all_samples) :
          /\ InSeq(cfg.rules_enabled, all_samples[x].rule_id)
          /\ all_samples[x].rule_id = drawn[x]
    /\ disk.has_table =>
          \A x \in 1..Len(disk.table) : InSeq(cfg.rules_enabled, disk.table[x].rule_id)

\* a finished run whose output holds samples of two rules
C8_Witness ==
    /\ pc = "done"
    /\ disk.table = all_samples
    /\ \E x, y \in 1..Len(all_samples) : all_samples[x].rule_id # all_samples[y].rule_id

\* C9: the split of every sample is the one split of the partition that lists
\* its pair_id
C9_SplitFidelity ==
    \A ss \in RunSamples : \A x \in 1..Len(ss) :
        /\ ss[x].split \in SplitLabels
        /\ InSeq(SplitList(ss[x].split), ss[x].pair_id)
        /\ Assigned(ss[x].pair_id)

\* a finished run over a table with an unassigned row, whose output holds a
\* sample of the dev split
C9_Witness ==
    /\ pc = "done"
    /\ \E x \in 1..n_positive : ~Assigned(cfg.table[x].pair_id)
    /\ \E x \in 1..Len(disk.table) : disk.table[x].split = "dev"

\* position in the table of the row with this pair_id
RowOf(pid) == CHOOSE x \in 1..n_positive : cfg.table[x].pair_id = pid

InGenerationOrder(ss) ==
    /\ \A x, y \in 1..Len(ss) :
          x <= y => RowOf(ss[x].pair_id) <= RowOf(ss[y].pair_id)
    /\ \A x, y, z \in 1..Len(ss) :
          (x <= y /\ y <= z /\ ss[x].pair_id = ss[z].pair_id) =>
              ss[y].pair_id = ss[x].pair_id

\* C10: the output is in generation order: table positions never decrease
\* along it, the samples of one row are contiguous, a step of a run only
\* appends to it, and the table written is the accumulated sequence
C10_GenerationOrder ==
    /\ [](\A ss \in RunSamples : InGenerationOrder(ss))
    /\ [](pc \in {"manifest", "done"} => disk.table = all_samples)
    /\ [][InRun =>
             /\ Len(all_samples') >= Len(all_samples)
             /\ SubSeq(all_samples', 1, Len(all_samples)) = all_samples]_vars

\* a finished run with two samples of one row followed by one of a later row
C10_Witness ==
    /\ pc = "done"
    /\ Len(disk.table) >= 3
    /\ disk.table[1].pair_id = disk.table[2].pair_id
    /\ disk.table[2].pair_id < disk.table[3].pair_id

\* C11: every random value a run consumes comes from the controller's rng: no
\* generator has drawn from an rng of its own
C11_SingleRng ==
    \A rid \in DOMAIN registry : registry[rid].rng_pos = 0

\* C14: no step of a run adds, removes or replaces a registry entry or changes
\* the state of a generator
C14_RegistryReadOnly ==
    [][registry' = registry]_vars

\* C20: R8 constructed with injection_rate 0 returns no sample, whatever value
\* its random draw takes
C20_RateZeroNeverEmits ==
    (call.rule_id = "R8" /\ call.n > 0 /\ Get(registry, "R8").injection_rate = 0) =>
        call.samples = <<>>

\* C16: the table export_negatives writes has the nine columns pair_id,
\* source_text, target_text, negative_text, rule_id, violation_type, severity,
\* metadata, split in this order, with or without rows, and so do the stats;
\* an export of no samples writes no rows, rows = 0 and empty counts
C16_SchemaStable ==
    disk.has_table =>
        /\ disk.table_columns =
               <<"pair_id", "source_text", "target_text", "negative_text", "rule_id",
                 "violation_type", "severity", "metadata", "split">>
        /\ disk.stats.columns = disk.table_columns
        /\ call.samples = <<>> =>
               /\ disk.table = <<>>
               /\ disk.stats.rows = 0
               /\ DOMAIN disk.stats.by_rule = {}
               /\ DOMAIN disk.stats.by_split = {}

\* an export of no samples into a directory that held an export of samples
C16_Witness ==
    /\ call.n >= 2
    /\ call.prev # <<>>
    /\ call.samples = <<>>
    /\ disk.has_table
    /\ disk.table = <<>>

\* C17: an export of the sample sequence the call before it exported, into the
\* same directory, leaves every file as it is and returns the same stats
C17_ExportIdempotent ==
    [][(call.n > 0 /\ call'.n = call.n + 1 /\ call'.samples = call.samples) =>
          /\ disk' = disk
          /\ call'.stats = call.stats]_vars

\* the same two-rule sequence exported twice in a row
C17_Witness ==
    /\ call.n >= 2
    /\ call.prev = call.samples
    /\ Len(call.samples) = 2
    /\ call.samples[1].rule_id # call.samples[2].rule_id
    /\ disk.table = call.samples

\* every positive of the table is in the split partition
AllAssigned == \A x \in 1..n_positive : Assigned(cfg.table[x].pair_id)

\* the generator registered under rule_id returns a sample on every call, for
\* every row of the table and every value its own rng can yield
EmitsAlways(rule_id) ==
    /\ Registered(registry, rule_id)
    /\ \A x \in 1..n_positive :
          \A o \in GenOutcomes(Get(registry, rule_id), cfg.table[x].pair_id,
                       cfg.table[x].source_text, cfg.table[x].target_text, "train") :
              Len(o.samples) >= 1

\* scenario A: one attempt per positive, ratio_target 1.0, one enabled rule that
\* always emits, every positive assigned, a table with rows
ScenarioA ==
    /\ n_positive >= 1
    /\ cfg.k_min = 1
    /\ cfg.k_max = 1
    /\ cfg.ratio_num = RatioDen
    /\ Len(cfg.rules_enabled) = 1
    /\ AllAssigned
    /\ EmitsAlways(cfg.rules_enabled[1])

\* C18: in scenario A the run does not fail, its output has exactly one sample
\* for each positive, in table order, and the manifest reports
\* negative_rows = positive_rows = n and ratio_actual = n / n
C18_OnePerPositive ==
    ScenarioA =>
        /\ pc # "failed"
        /\ pc \in {"export", "manifest", "done"} =>
               /\ Len(all_samples) = n_positive
               /\ \A x \in 1..Len(all_samples) :
                     all_samples[x].pair_id = cfg.table[x].pair_id
        /\ pc \in {"manifest", "done"} => disk.table = all_samples
        /\ pc = "done" =>
               /\ disk.has_manifest
               /\ disk.manifest.positive_rows = n_positive
               /\ disk.manifest.negative_rows = n_positive
               /\ disk.manifest.ratio_actual = <<n_positive, n_positive>>

\* a finished run of scenario A over more than one positive
C18_Witness ==
    /\ ScenarioA
    /\ pc = "done"
    /\ n_positive >= 2
    /\ Len(disk.table) = n_positive

\* scenario B: every enabled rule always emits, every positive is assigned,
\* k_min >= 1 and ratio_target <= 1
ScenarioB ==
    /\ cfg.k_min >= 1
    /\ cfg.ratio_num <= RatioDen
    /\ AllAssigned
    /\ \A x \in 1..Len(cfg.rules_enabled) : EmitsAlways(cfg.rules_enabled[x])

LatestRegistered(log, rule_id) ==
    LET xs == {x \in 1..Len(log) : log[x].rule_id = rule_id}
    IN  IF xs = {} THEN <<>>
        ELSE <<log[CHOOSE x \in xs : \A y \in xs : y <= x]>>

\* position of a rule id in ascending order
RankOf(rule_id) == CHOOSE x \in 1..Len(RuleIdOrder) : RuleIdOrder[x] = rule_id

\* C12: get returns the generator most recently registered under the rule_id
\* and raises for a rule_id never registered, a register changes no entry but
\* its own, get and available change nothing, and available returns the
\* registered ids ascending, each once
C12_RegistryContract ==
    /\ [](call.op = "get" =>
             /\ call.raised <=> LatestRegistered(call.log, call.rule_id) = <<>>
             /\ call.result = LatestRegistered(call.log, call.rule_id))
    /\ [](call.op = "available" =>
             /\ {call.result[x] : x \in 1..Len(call.result)} =
                    {call.log[x].rule_id : x \in 1..Len(call.log)}
             /\ \A x, y \in 1..Len(call.result) :
                    x < y => RankOf(call.result[x]) < RankOf(call.result[y]))
    /\ [][/\ call'.op \in {"get", "available"} => registry' = registry
          /\ call'.op = "register" =>
                /\ DOMAIN registry' = (DOMAIN registry) \cup {call'.rule_id}
                /\ \A rid \in DOMAIN registry :
                      rid # call'.rule_id => registry'[rid] = registry[rid]]_vars

\* available() after a register that overwrote an entry, with two ids registered
C12_Witness ==
    /\ call.op = "available"
    /\ Len(call.result) >= 2
    /\ \E x, y \in 1..Len(call.log) :
          x < y /\ call.log[x].rule_id = call.log[y].rule_id /\ call.log[x] # call.log[y]

\* C13: a run sees only the generators its own loading registered: the registry
\* holds no other rule_id, and no sample of the run comes from another one
C13_RegistryPerRun ==
    /\ \A rid \in DOMAIN registry : InSeq(loaded, rid)
    /\ \A x \in 1..Len(drawn) : InSeq(loaded, drawn[x])

\* pssd.suffixes of the resource is a list of strings
PssdWellFormed(res) ==
    /\ res.file
    /\ res.key
    /\ res.is_list
    /\ \A x \in 1..Len(res.items) : res.items[x].is_str

\* C15: a generator is constructed only from a well-formed lexicon resource,
\* and generate on a constructed generator raises no error
C15_LexiconFailsFast ==
    /\ call.op \in {"constructed", "generated"} => PssdWellFormed(call.res)
    /\ call.op = "generated" => call.ends # "TypeError"

\* a configured determiner occurs in the text as a whole word, in any case
HasDeterminerWord(text) ==
    \E n \in 1..Len(Determiners) :
        \E x \in 1..Len(text) :
            /\ x + Len(Determiners[n]) - 1 <= Len(text)
            /\ \A y \in 1..Len(Determiners[n]) :
                   LowerCh(text[x + y - 1]) = Determiners[n][y]
            /\ (x = 1 \/ text[x - 1] \notin WordChars)
            /\ (x + Len(Determiners[n]) > Len(text)
                   \/ text[x + Len(Determiners[n])] \notin WordChars)

\* the text without the spaces at its two ends
Trimmed(t) ==
    IF \A x \in 1..Len(t) : t[x] = " " THEN <<>>
    ELSE LET first == CHOOSE x \in 1..Len(t) :
                          t[x] # " " /\ \A y \in 1..(x - 1) : t[y] = " "
             last == CHOOSE x \in 1..Len(t) :
                         t[x] # " " /\ \A y \in (x + 1)..Len(t) : t[y] = " "
         IN  [x \in 1..(last - first + 1) |-> t[first + x - 1]]

\* a call of generate on R8 constructed with injection_rate 1.0
R8RateOneCalled ==
    /\ call.rule_id = "R8"
    /\ call.n > 0
    /\ Get(registry, "R8").injection_rate = RngRes

\* C21 as stated: R8 with injection_rate 1.0 emits one sample when the target
\* holds no configured determiner as a whole word and none otherwise; the
\* negative_text is the chosen determiner, one space, then the target text; the
\* determiner is of the configured list and is metadata inserted_token
C21_PrependsToTarget ==
    R8RateOneCalled =>
        IF HasDeterminerWord(call.target_text) THEN call.samples = <<>>
        ELSE /\ Len(call.samples) = 1
             /\ InSeq(Determiners, call.samples[1].metadata.inserted_token)
             /\ call.samples[1].negative_text =
                    call.samples[1].metadata.inserted_token \o <<" ">> \o call.target_text

\* C21 amended: as above, but the negative_text is the determiner, one space
\* and the target text with the whitespace at the two ends of the whole removed
C21_PrependsAndTrims ==
    R8RateOneCalled =>
        IF HasDeterminerWord(call.target_text) THEN call.samples = <<>>
        ELSE /\ Len(call.samples) = 1
             /\ InSeq(Determiners, call.samples[1].metadata.inserted_token)
             /\ call.samples[1].negative_text =
                    Trimmed(call.samples[1].metadata.inserted_token \o <<" ">>
                                \o call.target_text)

\* the second determiner of the list put before a two-word target
C21_Witness ==
    /\ R8RateOneCalled
    /\ call.target_text = W_satu \o SPC \o W_nate
    /\ Len(call.samples) = 1
    /\ call.samples[1].metadata.inserted_token = Determiners[2]
    /\ call.samples[1].negative_text = Determiners[2] \o SPC \o call.target_text

\* a call of generate on R4 has returned
R4Called == call.rule_id = "R4" /\ call.n > 0

\* the source holds a possessive form as a whole word, in any case
HasPossessive(source_text) ==
    \E p \in Posesivos : SearchWord(p, Lower(source_text))

\* the token is a registered prefix + stem + the PSSD suffix suf, and the form
\* without the suffix has at least 3 characters
R4Qualifies(token, suf) ==
    /\ \E y \in 1..Len(Prefixes) : StartsWith(token, Prefixes[y])
    /\ InSeq(PssdSuffixes, suf)
    /\ EndsWith(token, suf)
    /\ Len(token) - Len(suf) >= 3

\* the spans of the target's tokens that qualify with some suffix
R4QualifyingSpans(target_text) ==
    LET spans == TokenSpans(target_text, WordChars, 1)
    IN  {spans[x] : x \in {y \in 1..Len(spans) :
            \E z \in 1..Len(PssdSuffixes) :
                R4Qualifies(SubSeq(target_text, spans[y][1], spans[y][2]),
                            PssdSuffixes[z])}}

\* C22: with a possessive in the source and a qualifying token in the target,
\* R4 returns one sample whose negative_text is the target with the first
\* qualifying token replaced, where it stands, by the token without its suffix,
\* every other character unchanged; metadata original_token and removed_suffix
\* name that token and suffix
C22_ReplacesAtToken ==
    (/\ R4Called
     /\ HasPossessive(call.source_text)
     /\ R4QualifyingSpans(call.target_text) # {}) =>
        /\ Len(call.samples) = 1
        /\ LET t == call.target_text
               sp == CHOOSE a \in R4QualifyingSpans(t) :
                         \A b \in R4QualifyingSpans(t) : a[1] <= b[1]
               token == SubSeq(t, sp[1], sp[2])
               meta == call.samples[1].metadata
           IN  /\ meta.original_token = token
               /\ R4Qualifies(token, meta.removed_suffix)
               /\ call.samples[1].negative_text =
                      SubSeq(t, 1, sp[1] - 1)
                          \o SubSeq(token, 1, Len(token) - Len(meta.removed_suffix))
                          \o SubSeq(t, sp[2] + 1, Len(t))

\* the structural trigger of the called rule is absent from the texts of the
\* call: R4 no possessive in the source or no qualifying token in the target,
\* R6 no Spanish article in the source, R8 a determiner already in the target
TriggerAbsent ==
    CASE call.rule_id = "R4" ->
            \/ ~HasPossessive(call.source_text)
            \/ R4QualifyingSpans(call.target_text) = {}
      [] call.rule_id = "R6" ->
            ~\E art \in SpanishArticles : SearchWord(art, Lower(call.source_text))
      [] call.rule_id = "R8" -> HasDeterminerWord(call.target_text)
      [] OTHER -> FALSE

\* C23: a generate call whose trigger is absent returns no sample and takes no
\* value from the generator's rng: its position is the one before the call
C23_NoTriggerNoDraw ==
    (call.rule_id # "none" /\ call.n > 0 /\ TriggerAbsent) =>
        /\ call.samples = <<>>
        /\ call.draws = 0
        /\ Get(registry, call.rule_id).rng_pos = call.rng_before

\* C24: every generate call of R8 takes exactly one value from its rng, whether
\* it emits or not: after n calls the rng has yielded n values
C24_OneDrawPerCall ==
    (call.rule_id = "R8" /\ call.n > 0) =>
        /\ call.draws = 1
        /\ Get(registry, "R8").rng_pos = call.n

\* the first suffix of the list with which the token qualifies, as <<suf>>
R4FirstSuffix(token) ==
    LET zs == {z \in 1..Len(PssdSuffixes) : R4Qualifies(token, PssdSuffixes[z])}
    IN  IF zs = {} THEN <<>>
        ELSE <<PssdSuffixes[CHOOSE z \in zs : \A y \in zs : z <= y]>>

\* C25: R4 emits no sample whose suffix-stripped form has fewer than 3
\* characters; a candidate that fails the guard is passed over and the scan
\* goes on, so the sample is for the first token, and its first suffix, that
\* passes; the call returns nothing when no candidate passes or the source
\* holds no possessive form as a whole word
C25_ShortRootSkipped ==
    R4Called =>
        /\ \A x \in 1..Len(call.samples) :
              Len(call.samples[x].metadata.original_token)
                  - Len(call.samples[x].metadata.removed_suffix) >= 3
        /\ (~HasPossessive(call.source_text) \/ R4QualifyingSpans(call.target_text) = {})
              => call.samples = <<>>
        /\ (HasPossessive(call.source_text) /\ R4QualifyingSpans(call.target_text) # {})
              => /\ Len(call.samples) = 1
                 /\ LET t == call.target_text
                        sp == CHOOSE a \in R4QualifyingSpans(t) :
                                  \A b \in R4QualifyingSpans(t) : a[1] <= b[1]
                        token == SubSeq(t, sp[1], sp[2])
                    IN  /\ call.samples[1].metadata.original_token = token
                        /\ <<call.samples[1].metadata.removed_suffix>> = R4FirstSuffix(token)

\* the token ne fails the guard with its only suffix, the next token nate fails
\* it with the suffix te and passes with e
C25_Witness ==
    /\ R4Called
    /\ call.target_text = W_ne \o SPC \o W_nate
    /\ Len(call.samples) = 1
    /\ call.samples[1].metadata.original_token = W_nate
    /\ call.samples[1].metadata.removed_suffix = <<"e">>

\* the text t with the characters from position a to position b replaced by w
Spliced(t, a, b, w) == SubSeq(t, 1, a - 1) \o w \o SubSeq(t, b + 1, Len(t))

\* the target with R4's first qualifying token cut to the form without suf
R4AtFirstSite(t, suf) ==
    LET sp == CHOOSE a \in R4QualifyingSpans(t) :
                  \A b \in R4QualifyingSpans(t) : a[1] <= b[1]
    IN  Spliced(t, sp[1], sp[2], SubSeq(t, sp[1], sp[2] - Len(suf)))

\* R6's sites: the positions x where token x is a Yine determiner and token
\* x + 1 has at least 3 characters
R6Sites(t) ==
    LET spans == TokenSpans(Lower(t), R6Chars, 1)
    IN  {x \in 1..(Len(spans) - 1) :
            /\ Lower(SubSeq(t, spans[x][1], spans[x][2])) \in YineDets
            /\ spans[x + 1][2] - spans[x + 1][1] + 1 >= 3}

\* the target with the two tokens of R6's first site in swapped order
R6AtFirstSite(t) ==
    LET spans == TokenSpans(Lower(t), R6Chars, 1)
        x == CHOOSE a \in R6Sites(t) : \A b \in R6Sites(t) : a <= b
    IN  Spliced(t, spans[x][1], spans[x + 1][2],
                SubSeq(t, spans[x + 1][1], spans[x + 1][2]) \o <<" ">>
                    \o SubSeq(t, spans[x][1], spans[x][2]))

\* R7's sites: the adjective tokens with an enabled suffix next to a noun
R7Sites(t) ==
    LET spans == TokenSpans(t, R7Chars, 1)
        lowered == [n \in 1..Len(spans) |-> Lower(SubSeq(t, spans[n][1], spans[n][2]))]
    IN  {x \in 1..Len(spans) :
            lowered[x] \in Adjectives /\ R7Hits(lowered[x]) # {} /\ R7InNP(lowered, x)}

\* the target with the token of R7's first site replaced by w
R7AtFirstSite(t, w) ==
    LET spans == TokenSpans(t, R7Chars, 1)
        x == CHOOSE a \in R7Sites(t) : \A b \in R7Sites(t) : a <= b
    IN  Spliced(t, spans[x][1], spans[x][2], w)

\* C26: a generate call of R4, R6 or R7 returns at most one sample, and its
\* negative_text is the target changed at the first qualifying site in token
\* order and nowhere else
C26_FirstSiteOnly ==
    (call.rule_id \in {"R4", "R6", "R7"} /\ call.n > 0) =>
        /\ Len(call.samples) <= 1
        /\ Len(call.samples) = 1 =>
              LET t == call.target_text
                  neg == call.samples[1].negative_text
                  meta == call.samples[1].metadata
              IN  CASE call.rule_id = "R4" ->
                          /\ R4QualifyingSpans(t) # {}
                          /\ neg = R4AtFirstSite(t, meta.removed_suffix)
                    [] call.rule_id = "R6" ->
                          /\ R6Sites(t) # {}
                          /\ neg = R6AtFirstSite(t)
                    [] call.rule_id = "R7" ->
                          /\ R7Sites(t) # {}
                          /\ neg = R7AtFirstSite(t, meta.flipped_token)

\* the step that takes a positive into the attempt loop: the positive is
\* assigned and the cap not met, one value is drawn and gives k within
\* k_min..k_max, and no rule is drawn, looked up or called yet
DrawsAttemptCount ==
    (pc = "row" /\ pc' = "attempt") =>
        /\ Assigned(cfg.table[i].pair_id)
        /\ Len(all_samples) < max_negatives_allowed
        /\ rng_pos' = rng_pos + 1
        /\ k' >= cfg.k_min
        /\ k' <= cfg.k_max
        /\ j' = 0
        /\ lookups' = lookups
        /\ gen_calls' = gen_calls
        /\ all_samples' = all_samples

\* the samples a step appends are of the positive in hand, carry the split the
\* partition gives it and the rule_id of the rule the step drew
AppendsForCurrentRow ==
    \A x \in (Len(all_samples) + 1)..Len(all_samples') :
        /\ all_samples'[x].pair_id = cfg.table[i].pair_id
        /\ InSeq(SplitList(all_samples'[x].split), cfg.table[i].pair_id)
        /\ all_samples'[x].rule_id = cfg.rules_enabled[tape'[rng_pos'] + 1]

\* a step of the attempt loop that draws: one value, which picks a rule of the
\* enabled list, within the k attempts, followed by one generate invocation
AttemptDrawsAndGenerates ==
    (pc = "attempt" /\ rng_pos' # rng_pos) =>
        /\ j < k
        /\ rng_pos' = rng_pos + 1
        /\ tape'[rng_pos'] \in 0..(Len(cfg.rules_enabled) - 1)
        /\ lookups' = lookups + 1
        /\ gen_calls' = gen_calls + 1
        /\ j' = j + 1
        /\ pc' = "attempt"
        /\ AppendsForCurrentRow

\* the same, or the drawn rule is not registered: the lookup raises, nothing
\* is called or appended and the run ends
AttemptDrawsAndGeneratesOrRaises ==
    (pc = "attempt" /\ rng_pos' # rng_pos) =>
        /\ j < k
        /\ rng_pos' = rng_pos + 1
        /\ tape'[rng_pos'] \in 0..(Len(cfg.rules_enabled) - 1)
        /\ lookups' = lookups + 1
        /\ \/ /\ Registered(registry, cfg.rules_enabled[tape'[rng_pos'] + 1])
              /\ gen_calls' = gen_calls + 1
              /\ j' = j + 1
              /\ pc' = "attempt"
              /\ AppendsForCurrentRow
           \/ /\ ~Registered(registry, cfg.rules_enabled[tape'[rng_pos'] + 1])
              /\ gen_calls' = gen_calls
              /\ all_samples' = all_samples
              /\ pc' = "failed"

\* no rule is looked up and no generator called but in a drawing attempt step
OnlyAttemptsCall ==
    (lookups' # lookups \/ gen_calls' # gen_calls) =>
        (pc \in {"idle", "done", "failed"} \/ (pc = "attempt" /\ rng_pos' # rng_pos))

\* the attempt loop of a positive is left after k attempts or at the cap
LeavesAfterK ==
    (pc = "attempt" /\ pc' = "row") =>
        (j = k \/ Len(all_samples) >= max_negatives_allowed)

\* no positive has more than k_max samples in the output (none at the start)
AtMostKMaxPerPositive ==
    \A x \in 1..n_positive :
        Cardinality({y \in 1..Len(all_samples) :
                        all_samples[y].pair_id = cfg.table[x].pair_id}) <= cfg.k_max

\* C27 as stated: for an assigned positive reached below the cap one attempt
\* count k in k_min..k_max is drawn first; each attempt is one rule draw from the
\* enabled list followed by one generate invocation on that positive with its
\* split; k attempts are made unless the cap is reached first; a positive
\* contributes at most k_max samples
C27_AttemptsAlwaysGenerate ==
    [][/\ DrawsAttemptCount
       /\ AttemptDrawsAndGenerates
       /\ OnlyAttemptsCall
       /\ LeavesAfterK
       /\ AtMostKMaxPerPositive']_vars

\* C27 amended: as above, but an attempt whose drawn rule is not registered
\* ends in the lookup error, without a generate invocation, and ends the run
C27_AttemptsGenerateOrRaise ==
    [][/\ DrawsAttemptCount
       /\ AttemptDrawsAndGeneratesOrRaises
       /\ OnlyAttemptsCall
       /\ LeavesAfterK
       /\ AtMostKMaxPerPositive']_vars

\* a finished run that made two attempts for one positive and one for the
\* other without reaching the cap
C27_Witness ==
    /\ pc = "done"
    /\ n_positive = 2
    /\ AllAssigned
    /\ cfg.k_min < cfg.k_max
    /\ gen_calls = 3
    /\ Len(all_samples) < max_negatives_allowed

\* C28: no two samples of the accumulated output, or of the table written,
\* have the same pair_id, the same rule_id and the same negative_text
C28_NoDuplicates ==
    \A ss \in RunSamples : \A x, y \in 1..Len(ss) :
        (/\ ss[x].pair_id = ss[y].pair_id
         /\ ss[x].rule_id = ss[y].rule_id
         /\ ss[x].negative_text = ss[y].negative_text) => x = y

\* the ids of a list, as a set
IdSet(ids) == {ids[x] : x \in 1..Len(ids)}

RECURSIVE OfRule(_, _)
OfRule(ss, rid) ==
    IF ss = <<>> THEN <<>>
    ELSE IF ss[1].rule_id = rid THEN <<ss[1]>> \o OfRule(Tail(ss), rid)
    ELSE OfRule(Tail(ss), rid)

\* the sum of the row counts of the per-rule directories in rids
RECURSIVE RuleRows(_)
RuleRows(rids) ==
    IF rids = {} THEN 0
    ELSE LET rid == CHOOSE x \in rids : TRUE
         IN  disk.rule_dirs[rid].stats.rows + RuleRows(rids \ {rid})

\* C30: after an export the per-rule directories under the output directory
\* are those of the rule_ids that occur in the exported samples, each holds the
\* samples of its rule in output order, and their row counts sum to the total,
\* whatever the directory held before
C30_RuleDirsMatchExport ==
    call.n > 0 =>
        /\ DOMAIN disk.rule_dirs = {call.samples[x].rule_id : x \in 1..Len(call.samples)}
        /\ \A rid \in DOMAIN disk.rule_dirs :
              /\ disk.rule_dirs[rid].table = OfRule(call.samples, rid)
              /\ disk.rule_dirs[rid].stats.rows = Len(OfRule(call.samples, rid))
        /\ RuleRows(DOMAIN disk.rule_dirs) = Len(call.samples)

====
